---- MODULE Spec2Model ----
(***************************************************************************)
(* Purchase Pattern Intelligence Engine of the predicto backend:           *)
(* products, purchase history and product associations as kept by          *)
(* backend/database/crud.py behind the handlers of backend/api/products.py *)
(*                                                                         *)
(* Times are integer ticks, TicksPerDay ticks to a day; timedelta.days is  *)
(* the floor of a tick difference divided by TicksPerDay.  Floats are      *)
(* exact rationals <<numerator, denominator>> in lowest terms; a nullable  *)
(* float is <<>> when NULL.  A purchase_history row is modelled by its     *)
(* product_id and purchase_date, the only columns any query reads.         *)
(*                                                                         *)
(* Receipt processing (backend/api/routes.py and                           *)
(* backend/services/gemini_service.py) is modelled on token sequences:     *)
(* the call and its arguments are drawn in the initial state and kept in   *)
(* "last", and the step is the return of the call.  JSON numbers, prices   *)
(* and confidences of receipts are integers in hundredths.                 *)
(***************************************************************************)
EXTENDS Integers, Sequences, FiniteSets, TLC

VARIABLES
    products,     \* table products: id -> row, for the ids that exist
    hist,         \* table purchase_history: product_id -> (purchase_date -> number of rows)
    now,          \* datetime.utcnow(), in ticks
    fkEnforced,   \* whether the database behind DATABASE_URL enforces foreign keys
    last,         \* the last request and its response
    assocs,       \* table product_associations: its rows, in insertion order
    coCalls,      \* history: per unordered pair of distinct products, the
                  \* record_association calls made so far
    reqs,         \* in-flight record_association requests, one session each
    purs          \* in-flight record_purchase requests, one session each

vars == <<products, hist, now, fkEnforced, last, assocs, coCalls, reqs, purs>>

----------------------------------------------------------------------------
(* Bounds *)
MaxProducts == 2
MaxTime == 6
MaxEvents == 2
MaxNow == 1
MaxWindowEvents == 11
TicksPerDay == 2
MaxCalls == 50
NumReqs == 3

(* Encodings *)
NoDate == -1
NoPrice == -1
BogusId == 0
Null == <<>>

ProductIds == 1..MaxProducts
\* dates a purchase event can carry: the ticks of the first days, day 7, day 10
Times == (0..MaxTime) \cup {7 * TicksPerDay, 10 * TicksPerDay}
\* the same dates in ascending order
TimeSeq == [i \in 1..(MaxTime + 1) |-> i - 1] \o <<7 * TicksPerDay, 10 * TicksPerDay>>
Names == {"Milk", "milk", "Eggs"}
NoName == ""
Prices == {10}
\* product_id values a client can send: an existing id, one that resolves to
\* nothing, the sentinel in two spellings, the empty string
SentinelIds == {-1, -2, -3}
RequestIds == ProductIds \cup {BogusId} \cup SentinelIds
HistKeys == ProductIds \cup {BogusId}

----------------------------------------------------------------------------
(* Arithmetic on rationals *)
RECURSIVE GCD(_, _)
GCD(a, b) == IF b = 0 THEN a ELSE GCD(b, a % b)

Rat(n, d) == LET g == GCD(n, d) IN <<n \div g, d \div g>>

Min(a, b) == IF a <= b THEN a ELSE b

\* str.lower() / func.lower() on the names of the model
Lower(n) == IF n = "Milk" THEN "milk" ELSE IF n = "Eggs" THEN "eggs" ELSE n

\* timedelta.days of a tick difference
Days(d) == d \div TicksPerDay

----------------------------------------------------------------------------
(* crud.get_product_by_name *)
NameMatches(name) ==
    {id \in DOMAIN products : Lower(products[id].name) = Lower(name)}

\* scalar_one_or_none raises MultipleResultsFound when several rows match
NameAmbiguous(name) == Cardinality(NameMatches(name)) > 1

get_product_by_name(name) ==
    LET m == NameMatches(name)
    IN IF m = {} THEN Null ELSE <<CHOOSE id \in m : TRUE>>

\* (variant: purchase_count left to the column default of models.Product)
NewProductRowDefaultCount(name, category, price) ==
    [name |-> name, category |-> category,
     typical_price |-> IF price = NoPrice THEN Null ELSE Rat(price, 1),
     purchase_count |-> 1,
     last_purchased_date |-> now,
     average_days_between_purchases |-> Null]

\* crud.create_product: the row it inserts (id is the fresh uuid4);
\* last_purchased_date is not passed and takes the column default, utcnow
NewProductRow(name, category, price) ==
    [name |-> name, category |-> category,
     typical_price |-> IF price = NoPrice THEN Null ELSE Rat(price, 1),
     purchase_count |-> 0,
     last_purchased_date |-> now,
     average_days_between_purchases |-> Null]

----------------------------------------------------------------------------
(* crud.get_purchase_history: ORDER BY purchase_date DESC LIMIT limit *)
RECURSIVE OrderByDateDesc(_, _)
OrderByDateDesc(rows, n) ==
    IF n = 0 THEN <<>>
    ELSE [i \in 1..rows[TimeSeq[n]] |-> TimeSeq[n]] \o OrderByDateDesc(rows, n - 1)

get_purchase_history(rows, limit) ==
    LET s == OrderByDateDesc(rows, Len(TimeSeq))
    IN SubSeq(s, 1, Min(limit, Len(s)))

HistoryLimit == 10

\* the intervals list of record_purchase: positive day gaps of neighbours
RECURSIVE IntervalsFrom(_, _)
IntervalsFrom(history, i) ==
    IF i > Len(history) THEN <<>>
    ELSE LET days == Days(history[i-1] - history[i])
         IN (IF days > 0 THEN <<days>> ELSE <<>>) \o IntervalsFrom(history, i + 1)

RECURSIVE SumSeq(_)
SumSeq(s) == IF s = <<>> THEN 0 ELSE Head(s) + SumSeq(Tail(s))

\* (variant: exponential smoothing over the gap of the two most recent events)
AverageDaysSmoothed(old, history) ==
    IF Len(history) >= 2
    THEN LET days == Days(history[1] - history[2])
         IN IF days > 0
            THEN IF old = Null THEN Rat(days, 1)
                 ELSE Rat(7 * old[1] + 3 * days * old[2], 10 * old[2])
            ELSE old
    ELSE old

\* (variant: an average needs three events)
AverageDaysFromThird(old, history) ==
    IF Len(history) >= 3
    THEN LET intervals == IntervalsFrom(history, 2)
         IN IF intervals # <<>>
            THEN Rat(SumSeq(intervals), Len(intervals))
            ELSE old
    ELSE old

\* (variant: every gap of neighbours counts, those of zero days too)
AverageDaysOfAllGaps(old, history) ==
    IF Len(history) >= 2
    THEN Rat(SumSeq([i \in 1..(Len(history) - 1) |->
                        Days(history[i] - history[i + 1])]),
             Len(history) - 1)
    ELSE old

\* the new average_days_between_purchases, given the old one
AverageDays(old, history) ==
    IF Len(history) >= 2
    THEN LET intervals == IntervalsFrom(history, 2)
         IN IF intervals # <<>>
            THEN Rat(SumSeq(intervals), Len(intervals))
            ELSE old
    ELSE old

\* the typical_price update of record_purchase ("if price:" drops None and 0)
TypicalPrice(old, price) ==
    IF price # NoPrice /\ price # 0
    THEN IF old # Null /\ old[1] # 0
         THEN Rat(old[1] * 7 + price * 3 * old[2], old[2] * 10)
         ELSE Rat(price, 1)
    ELSE old

\* unordered pairs of distinct product ids, the smaller id first
Pairs == {pr \in ProductIds \X ProductIds : pr[1] < pr[2]}
Requests == 1..NumReqs
Idle == [pc |-> "idle", a |-> BogusId, b |-> BogusId, found |-> 0, count |-> 0,
         status |-> "none"]

NoLast == [op |-> "none", status |-> "none", target |-> BogusId, value |-> Null]

NoPurchase == [pc |-> "idle", pid |-> BogusId, date |-> NoDate, price |-> NoPrice,
               row |-> Null, status |-> "none"]

\* number of purchase_history rows of product k in table h
\* the number of rows dated TimeSeq[n] or later
RECURSIVE CountRows(_, _)
CountRows(rows, n) ==
    IF n > Len(TimeSeq) THEN 0 ELSE rows[TimeSeq[n]] + CountRows(rows, n + 1)

NumEventsIn(h, k) == CountRows(h[k], 1)
NumEvents(k) == NumEventsIn(hist, k)
TotalEvents == NumEvents(BogusId) + SumSeq([i \in 1..MaxProducts |-> NumEvents(i)])

Init ==
    /\ products = <<>>
    /\ hist = [k \in HistKeys |-> [t \in Times |-> 0]]
    /\ now = 0
    /\ fkEnforced \in BOOLEAN
    /\ last = NoLast
    /\ assocs = <<>>
    /\ coCalls = [pr \in Pairs |-> 0]
    /\ reqs = [r \in Requests |-> Idle]
    /\ purs = [r \in Requests |-> NoPurchase]

----------------------------------------------------------------------------
(* POST /products: api.products.create_product *)
Categories == {"Dairy"}

FreeIds == ProductIds \ DOMAIN products

Insert(id, row) ==
    [k \in DOMAIN products \cup {id} |-> IF k = id THEN row ELSE products[k]]

\* what the client gets back: the status code and the product the call acted on
\* (status "ok", an HTTP error code, or the exception a crud function raised)
Respond(op, status, target) ==
    [op |-> op, status |-> status, target |-> target, value |-> Null]

CreateProduct(name, category, price) ==
    LET existing == get_product_by_name(name) IN
    /\ IF NameAmbiguous(name)
       THEN /\ last' = Respond("create_product", "500", BogusId)
            /\ UNCHANGED products
       ELSE IF existing # Null
       THEN /\ last' = Respond("create_product", "400", existing[1])
            /\ UNCHANGED products
       ELSE \E id \in FreeIds :
            /\ products' = Insert(id, NewProductRow(name, category, price))
            /\ last' = Respond("create_product", "ok", id)
    /\ UNCHANGED <<hist, now, fkEnforced, assocs, coCalls, reqs, purs>>

----------------------------------------------------------------------------
(* crud.record_purchase: the product row after the statistics update *)
AddRow(rows, date) == [rows EXCEPT ![date] = @ + 1]

UpdatedProduct(p, rows, date, price) ==
    [p EXCEPT
       !.purchase_count = @ + 1,
       !.last_purchased_date = date,
       !.typical_price = TypicalPrice(@, price),
       !.average_days_between_purchases =
            AverageDays(@, get_purchase_history(rows, HistoryLimit))]

\* PurchaseRecordRequest declares no field "name": purchase.name raises AttributeError
SchemaHasName == FALSE

\* POST /products/purchase: api.products.record_purchase
RecordPurchase(pid, name, date, price) ==
    LET unknown == pid \in SentinelIds
        purchase_date == IF date = NoDate THEN now ELSE date
        R(status, target) == Respond("record_purchase", status, target)
        \* step 2 of the handler, on the resolved id and the products table ps
        Record(final, ps) ==
            IF final \in DOMAIN ps
            THEN LET rows == AddRow(hist[final], purchase_date) IN
                 /\ hist' = [hist EXCEPT ![final] = rows]
                 /\ products' = [ps EXCEPT ![final] =
                                   UpdatedProduct(ps[final], rows, purchase_date, price)]
                 /\ last' = R("ok", final)
            ELSE IF fkEnforced
            THEN \* the autoflushed INSERT violates the foreign key: rolled back, 500
                 /\ hist' = hist
                 /\ products' = ps
                 /\ last' = R("500", BogusId)
            ELSE /\ hist' = [hist EXCEPT ![final] = AddRow(@, purchase_date)]
                 /\ products' = ps
                 /\ last' = R("ok", BogusId)
    IN
    /\ IF unknown
       THEN IF ~SchemaHasName
            THEN /\ last' = R("500", BogusId)
                 /\ UNCHANGED <<products, hist>>
            ELSE IF name = NoName
            THEN /\ last' = R("400", BogusId)
                 /\ UNCHANGED <<products, hist>>
            ELSE IF NameAmbiguous(name)
            THEN /\ last' = R("500", BogusId)
                 /\ UNCHANGED <<products, hist>>
            ELSE LET existing == get_product_by_name(name) IN
                 IF existing # Null
                 THEN Record(existing[1], products)
                 ELSE \E id \in FreeIds :
                        Record(id, Insert(id, NewProductRow(name, "Uncategorized", price)))
       ELSE Record(pid, products)
    /\ UNCHANGED <<now, fkEnforced, assocs, coCalls, reqs, purs>>

\* the clock advances
Tick ==
    /\ now < MaxNow
    /\ now' = now + 1
    /\ UNCHANGED <<products, hist, fkEnforced, last, assocs, coCalls, reqs, purs>>

\* ids a client can send: uuid4 ids are not guessable, so an id either names a
\* product that exists, or is BogusId, or is the sentinel
Sendable(pid) == pid \in ProductIds => pid \in DOMAIN products

\* a purchase date days after the first
FarDate == 3 * TicksPerDay

\* the "name" and "purchase_date" members of the purchase requests sent
SentNames == {NoName, "milk"}
SentDates == {NoDate, FarDate}

\* requests of all shapes, served at one reading of the server clock
Next ==
    \/ \E n \in Names, c \in Categories, p \in Prices \cup {NoPrice} :
          CreateProduct(n, c, p)
    \/ \E pid \in RequestIds, n \in SentNames,
          d \in SentDates, p \in Prices \cup {NoPrice} :
          /\ Sendable(pid)
          /\ TotalEvents < MaxEvents
          /\ RecordPurchase(pid, n, d, p)

Spec == Init /\ [][Next]_vars

\* purchase dates less than a day apart, a day apart and days apart
WindowDates == {0, 1, TicksPerDay, FarDate}

\* the purchase history of one product, over dates the client supplies or the
\* server clock stamps
NextWindow ==
    \/ \E c \in Categories : CreateProduct("Milk", c, NoPrice)
    \/ \E pid \in ProductIds, d \in WindowDates \cup {NoDate} :
          /\ Sendable(pid)
          /\ TotalEvents < MaxWindowEvents
          /\ RecordPurchase(pid, NoName, d, NoPrice)
    \/ Tick

\* on a database that enforces foreign keys
InitWindow == Init /\ fkEnforced

SpecWindow == InitWindow /\ [][NextWindow]_vars

MaxPriceEvents == 3

\* the "price" member of the requests sent: none, 0 and two positive prices
SentPrices == {NoPrice, 0, 10, 20}

\* purchases with and without a price, on products created with and without one
NextPrice ==
    \/ \E n \in {"Milk", "Eggs"}, c \in Categories, p \in SentPrices :
          CreateProduct(n, c, p)
    \/ \E pid \in ProductIds, p \in SentPrices :
          /\ Sendable(pid)
          /\ TotalEvents < MaxPriceEvents
          /\ RecordPurchase(pid, NoName, NoDate, p)

SpecPrice == InitWindow /\ [][NextPrice]_vars

----------------------------------------------------------------------------
(* Product associations: crud.record_association, crud.get_associated_products *)

\* models.ProductAssociation maps id, product_a_id, product_b_id,
\* co_purchase_count, confidence_score and last_updated.  It has no attribute
\* "confidence" or "last_purchased_together": the declarative constructor
\* raises TypeError for such a keyword, and ProductAssociation.confidence in a
\* query raises AttributeError.
AssocHasConfidence == FALSE

\* "smaller ID first"
Canonical(a, b) == IF a > b THEN <<b, a>> ELSE <<a, b>>

\* the SELECT of record_association: indices of the rows of the pair
Matching(pr) == {i \in DOMAIN assocs : assocs[i].a = pr[1] /\ assocs[i].b = pr[2]}

ConfidenceCap == <<1, 1>>

\* min(co_purchase_count / 10.0, 1.0)
Confidence(count) == IF count >= 10 THEN ConfidenceCap ELSE Rat(count, 10)

InitialConfidence == <<1, 10>>

\* r1 <= r2 on rationals
RatLeq(r1, r2) == r1[1] * r2[2] <= r2[1] * r1[2]

\* what the caller of a crud function gets: the value returned, or the exception
Returned(op, status, value) ==
    [op |-> op, status |-> status, target |-> BogusId, value |-> value]

\* the row written by the update branch; an attribute "confidence" that is no
\* column is set on the instance only, and co_purchase_count alone is flushed
Bumped(row, count) ==
    [row EXCEPT !.co_purchase_count = count,
                !.confidence = IF AssocHasConfidence THEN Confidence(count) ELSE @]

record_association(a0, b0) ==
    LET pr == Canonical(a0, b0)
        m == Matching(pr)
    IN
    /\ coCalls' = IF a0 # b0 THEN [coCalls EXCEPT ![pr] = @ + 1] ELSE coCalls
    /\ IF Cardinality(m) > 1
       THEN \* scalar_one_or_none
            /\ last' = Returned("record_association", "MultipleResultsFound", Null)
            /\ UNCHANGED assocs
       ELSE IF m # {}
       THEN LET i == CHOOSE i \in m : TRUE
                count == assocs[i].co_purchase_count + 1
            IN /\ assocs' = [assocs EXCEPT ![i] = Bumped(@, count)]
               /\ last' = Returned("record_association", "ok",
                                   <<pr[1], pr[2], count, Confidence(count)>>)
       ELSE IF ~AssocHasConfidence
       THEN /\ last' = Returned("record_association", "TypeError", Null)
            /\ UNCHANGED assocs
       ELSE /\ assocs' = Append(assocs, [a |-> pr[1], b |-> pr[2],
                                         co_purchase_count |-> 1,
                                         confidence |-> InitialConfidence])
            /\ last' = Returned("record_association", "ok",
                                <<pr[1], pr[2], 1, InitialConfidence>>)
    /\ UNCHANGED <<products, hist, now, fkEnforced, reqs, purs>>

\* rows of the join, for product pid: <<other product, confidence, co_purchase_count>>
Joined(pid, min_confidence) ==
    {<<o, assocs[i].confidence, assocs[i].co_purchase_count>> :
        <<i, o>> \in {x \in (DOMAIN assocs) \X (DOMAIN products) :
                       /\ x[2] \in {assocs[x[1]].a, assocs[x[1]].b}
                       /\ pid \in {assocs[x[1]].a, assocs[x[1]].b}
                       /\ RatLeq(min_confidence, assocs[x[1]].confidence)
                       /\ x[2] # pid}}

\* ORDER BY confidence DESC LIMIT limit; the order among equal confidences is the store's
RECURSIVE OrderByConfidenceDesc(_)
OrderByConfidenceDesc(rows) ==
    IF rows = {} THEN <<>>
    ELSE LET top == CHOOSE r \in rows : \A q \in rows : RatLeq(q[2], r[2])
         IN <<top>> \o OrderByConfidenceDesc(rows \ {top})

\* what get_associated_products returns or raises, in the current state
Associated(pid, min_confidence, limit) ==
    IF ~AssocHasConfidence
    THEN Returned("get_associated_products", "AttributeError", Null)
    ELSE LET s == OrderByConfidenceDesc(Joined(pid, min_confidence))
         IN Returned("get_associated_products", "ok", SubSeq(s, 1, Min(limit, Len(s))))

get_associated_products(pid, min_confidence, limit) ==
    /\ last' = Associated(pid, min_confidence, limit)
    /\ UNCHANGED <<products, hist, now, fkEnforced, assocs, coCalls, reqs, purs>>

MinConfidences == {<<1, 10>>, <<3, 10>>}
DefaultLimit == 10

NextAssoc ==
    \/ \E n \in Names, c \in Categories : CreateProduct(n, c, NoPrice)
    \/ \E a \in ProductIds, b \in ProductIds :
          /\ a # b => coCalls[Canonical(a, b)] < MaxCalls
          /\ record_association(a, b)
    \/ \E pid \in ProductIds, mc \in MinConfidences :
          get_associated_products(pid, mc, DefaultLimit)

SpecAssoc == InitWindow /\ [][NextAssoc]_vars

----------------------------------------------------------------------------
(* Concurrent record_association calls.  Each request has its own session   *)
(* (connection.get_session); the function awaits at the SELECT and at the   *)
(* commit, and takes no lock: the SELECT is not FOR UPDATE and the table    *)
(* has no unique constraint on (product_a_id, product_b_id).                *)

\* lines 176-178: the call starts and orders its arguments
AssocBegin(r, a0, b0) ==
    /\ reqs[r].pc = "idle"
    /\ reqs' = [reqs EXCEPT ![r] = [Idle EXCEPT !.pc = "select",
                                                !.a = Canonical(a0, b0)[1],
                                                !.b = Canonical(a0, b0)[2]]]
    /\ UNCHANGED <<products, hist, now, fkEnforced, last, assocs, coCalls, purs>>

\* lines 180-189: the SELECT reads the committed rows into the session
AssocSelect(r) ==
    LET m == Matching(<<reqs[r].a, reqs[r].b>>) IN
    /\ reqs[r].pc = "select"
    /\ IF Cardinality(m) > 1
       THEN reqs' = [reqs EXCEPT ![r].pc = "done", ![r].status = "MultipleResultsFound"]
       ELSE IF m # {}
       THEN LET i == CHOOSE i \in m : TRUE
            IN reqs' = [reqs EXCEPT ![r].pc = "write", ![r].found = i,
                                    ![r].count = assocs[i].co_purchase_count]
       ELSE reqs' = [reqs EXCEPT ![r].pc = "write"]
    /\ UNCHANGED <<products, hist, now, fkEnforced, last, assocs, coCalls, purs>>

\* lines 191-209: the branch on what was read, and the commit.  The UPDATE
\* writes the value computed from the count this session read.
AssocCommit(r) ==
    /\ reqs[r].pc = "write"
    /\ IF reqs[r].found # 0
       THEN /\ assocs' = [assocs EXCEPT ![reqs[r].found] = Bumped(@, reqs[r].count + 1)]
            /\ reqs' = [reqs EXCEPT ![r].pc = "done", ![r].status = "ok"]
       ELSE IF ~AssocHasConfidence
       THEN /\ reqs' = [reqs EXCEPT ![r].pc = "done", ![r].status = "TypeError"]
            /\ UNCHANGED assocs
       ELSE /\ assocs' = Append(assocs, [a |-> reqs[r].a, b |-> reqs[r].b,
                                         co_purchase_count |-> 1,
                                         confidence |-> InitialConfidence])
            /\ reqs' = [reqs EXCEPT ![r].pc = "done", ![r].status = "ok"]
    /\ UNCHANGED <<products, hist, now, fkEnforced, last, coCalls, purs>>

NextConc ==
    \/ \E r \in Requests, a \in ProductIds, b \in ProductIds : AssocBegin(r, a, b)
    \/ \E r \in Requests : AssocSelect(r)
    \/ \E r \in Requests : AssocCommit(r)

SpecConc == InitWindow /\ [][NextConc]_vars

----------------------------------------------------------------------------
(* Concurrent record_purchase calls on a store with row-level locks and     *)
(* READ COMMITTED isolation (the postgresql+asyncpg engine of connection.py).*)
(* Each request has its own session; crud.record_purchase awaits at          *)
(* get_product, at get_purchase_history and at the commit.  The SELECT of    *)
(* get_product takes no lock; the UPDATE flushed before the history SELECT   *)
(* locks the product row until the commit, so the UPDATE, the history SELECT *)
(* and the commit of one request are one step for the others.                *)

\* products.py:129 and crud.py:116-123: the request is read, the event is
\* built and added to the session
PurchaseBegin(r, pid, date, price) ==
    /\ purs[r].pc = "idle"
    /\ purs' = [purs EXCEPT ![r] = [NoPurchase EXCEPT
                     !.pc = "select", !.pid = pid, !.price = price,
                     !.date = IF date = NoDate THEN now ELSE date]]
    /\ UNCHANGED <<products, hist, now, fkEnforced, last, assocs, coCalls, reqs>>

\* crud.py:126: get_product autoflushes the INSERT of the event (not yet
\* committed) and loads the committed product row into the session
PurchaseSelect(r) ==
    /\ purs[r].pc = "select"
    /\ IF purs[r].pid \in DOMAIN products
       THEN purs' = [purs EXCEPT ![r].pc = "write", ![r].row = <<products[purs[r].pid]>>]
       ELSE IF fkEnforced
       THEN purs' = [purs EXCEPT ![r].pc = "done", ![r].status = "500"]
       ELSE purs' = [purs EXCEPT ![r].pc = "write"]
    /\ UNCHANGED <<products, hist, now, fkEnforced, last, assocs, coCalls, reqs>>

\* the UPDATE a session emits: SET lists the attributes whose value differs
\* from the one loaded, with the value computed in the session
Flushed(committed, loaded, computed) ==
    [f \in DOMAIN committed |->
        IF computed[f] # loaded[f] THEN computed[f] ELSE committed[f]]

\* crud.py:127-150: the statistics are computed from the row this session
\* loaded and from the history it reads (the committed events and its own),
\* and the event and the row are committed
PurchaseCommit(r) ==
    LET pid == purs[r].pid
        rows == AddRow(hist[pid], purs[r].date)
    IN
    /\ purs[r].pc = "write"
    /\ hist' = [hist EXCEPT ![pid] = rows]
    /\ IF purs[r].row # Null /\ pid \in DOMAIN products
       THEN LET loaded == purs[r].row[1]
                computed == UpdatedProduct(loaded, rows, purs[r].date, purs[r].price)
            IN products' = [products EXCEPT ![pid] = Flushed(@, loaded, computed)]
       ELSE UNCHANGED products
    /\ purs' = [purs EXCEPT ![r].pc = "done", ![r].status = "ok"]
    /\ UNCHANGED <<now, fkEnforced, last, assocs, coCalls, reqs>>

\* purchase dates of the concurrent requests
ConcDates == {0, TicksPerDay}

NextPurchaseConc ==
    \/ \E c \in Categories : CreateProduct("Milk", c, NoPrice)
    \/ \E r \in Requests, pid \in ProductIds, d \in ConcDates :
          /\ Sendable(pid)
          /\ PurchaseBegin(r, pid, d, NoPrice)
    \/ \E r \in Requests : PurchaseSelect(r)
    \/ \E r \in Requests : PurchaseCommit(r)

SpecPurchaseConc == InitWindow /\ [][NextPurchaseConc]_vars

----------------------------------------------------------------------------
(* Repurchase predictor: crud.predict_needed_products behind                 *)
(* GET /products/predictions/needed                                          *)

\* the WHERE clause: both columns not NULL (last_purchased_date is never NULL:
\* create_product leaves it to the column default)
Candidates ==
    {id \in DOMAIN products :
        /\ products[id].average_days_between_purchases # Null
        /\ products[id].last_purchased_date # NoDate}

\* (today - product.last_purchased_date).days
DaysSince(p) == Days(now - p.last_purchased_date)

\* (variant: a product is predicted only once the expected interval has passed)
EligibleWhenOverdue(p) ==
    LET e == p.average_days_between_purchases
    IN e[1] # 0 /\ DaysSince(p) * e[2] >= e[1]

\* (variant: a product is predicted from half of the expected interval on)
EligibleFromHalf(p) ==
    LET e == p.average_days_between_purchases
    IN e[1] # 0 /\ 2 * DaysSince(p) * e[2] >= e[1]

\* "if expected_days and days_since_purchase >= (expected_days * 0.8)"
Eligible(p) ==
    LET e == p.average_days_between_purchases
    IN e[1] # 0 /\ 10 * DaysSince(p) * e[2] >= 8 * e[1]

\* min((days_since_purchase / expected_days), 1.0)
PredictionConfidence(p) ==
    LET e == p.average_days_between_purchases
        d == DaysSince(p)
    IN IF d * e[2] >= e[1] THEN <<1, 1>> ELSE Rat(d * e[2], e[1])

\* a prediction: <<product, confidence, days_since_purchase, expected_days>>
Prediction(id) ==
    <<id, PredictionConfidence(products[id]), DaysSince(products[id]),
      products[id].average_days_between_purchases>>

\* the loop over the rows in the order the store returned them
RECURSIVE Appended(_, _)
Appended(order, min_confidence) ==
    IF order = <<>> THEN <<>>
    ELSE LET id == Head(order)
             keep == /\ Eligible(products[id])
                     /\ RatLeq(min_confidence, PredictionConfidence(products[id]))
         IN (IF keep THEN <<Prediction(id)>> ELSE <<>>)
            \o Appended(Tail(order), min_confidence)

\* list.sort(key=confidence, reverse=True): stable, equal confidences keep
\* the order they had in the list
RECURSIVE SortedByConfidence(_)
SortedByConfidence(ps) ==
    IF ps = <<>> THEN <<>>
    ELSE LET i == CHOOSE i \in DOMAIN ps :
                     /\ \A j \in DOMAIN ps : RatLeq(ps[j][2], ps[i][2])
                     /\ \A j \in 1..(i - 1) : ps[j][2] # ps[i][2]
         IN <<ps[i]>> \o SortedByConfidence(SubSeq(ps, 1, i - 1) \o SubSeq(ps, i + 1, Len(ps)))

\* (variant: days_ahead widens the window)
PredictionsLookAhead(order, days_ahead, min_confidence) ==
    LET shifted(id) == DaysSince(products[id]) + days_ahead
        ok(id) == LET e == products[id].average_days_between_purchases
                  IN /\ 10 * shifted(id) * e[2] >= 8 * e[1]
                     /\ RatLeq(min_confidence, PredictionConfidence(products[id]))
    IN SortedByConfidence([i \in 1..Len(SelectSeq(order, ok)) |->
                              Prediction(SelectSeq(order, ok)[i])])

\* the list predict_needed_products returns; days_ahead is not read
Predictions(order, days_ahead, min_confidence) ==
    SortedByConfidence(Appended(order, min_confidence))

\* the orders in which a SELECT without ORDER BY can return the rows of S
StoreOrders(S) ==
    {o \in [1..Cardinality(S) -> S] : \A i, j \in DOMAIN o : i # j => o[i] # o[j]}

Predicted(days_ahead, min_confidence, predictions) ==
    [op |-> "predict_needed_products", status |-> "ok", target |-> BogusId,
     value |-> predictions, days_ahead |-> days_ahead,
     min_confidence |-> min_confidence]

predict_needed_products(days_ahead, min_confidence) ==
    /\ UNCHANGED <<products, hist, now, fkEnforced, assocs, coCalls, reqs, purs>>
    /\ \E order \in StoreOrders(Candidates) :
          last' = Predicted(days_ahead, min_confidence,
                            Predictions(order, days_ahead, min_confidence))

\* time passes until the clock reads t
Elapse(t) ==
    /\ now < t
    /\ now' = t
    /\ UNCHANGED <<products, hist, fkEnforced, last, assocs, coCalls, reqs, purs>>

MaxPredictEvents == 3
MaxTieEvents == 4

\* purchases sent: <<purchase_date, price>>, on day 0, day 7 and day 10
PredictPurchases == {<<0, 60>>, <<7 * TicksPerDay, 64>>, <<10 * TicksPerDay, NoPrice>>}
\* clock readings at which requests arrive: day 0, 13, 17 and a half, 18
PredictClock == {0, 13 * TicksPerDay, 17 * TicksPerDay + 1, 18 * TicksPerDay}
DaysAheads == {-1, 7}
PredictMinConfidences == {<<1, 2>>, <<9, 10>>}

\* the catalog is set up on day 0; purchases and prediction passes follow
NextPredict ==
    \/ \E n \in {"Milk", "Eggs"}, c \in Categories :
          now = 0 /\ CreateProduct(n, c, NoPrice)
    \/ \E pid \in ProductIds, pp \in PredictPurchases :
          /\ Sendable(pid)
          /\ TotalEvents < MaxPredictEvents
          /\ RecordPurchase(pid, NoName, pp[1], pp[2])
    \/ \E t \in PredictClock : Elapse(t)
    \/ \E da \in DaysAheads, mc \in PredictMinConfidences :
          predict_needed_products(da, mc)

SpecPredict == InitWindow /\ [][NextPredict]_vars

\* min_confidence values below, at and above the 0.8 of the eligibility test
FloorMinConfidences == {<<1, 2>>, <<4, 5>>, <<9, 10>>}

\* the same catalog and purchases, and passes with the default days_ahead
NextFloor ==
    \/ \E n \in {"Milk", "Eggs"}, c \in Categories :
          now = 0 /\ CreateProduct(n, c, NoPrice)
    \/ \E pid \in ProductIds, pp \in PredictPurchases :
          /\ Sendable(pid)
          /\ TotalEvents < MaxPredictEvents
          /\ RecordPurchase(pid, NoName, pp[1], pp[2])
    \/ \E t \in PredictClock : Elapse(t)
    \/ \E mc \in FloorMinConfidences : predict_needed_products(7, mc)

SpecFloor == InitWindow /\ [][NextFloor]_vars

\* two products with the same purchase dates, and prediction passes on day 13
NextTies ==
    \/ \E n \in {"Milk", "Eggs"}, c \in Categories :
          now = 0 /\ CreateProduct(n, c, NoPrice)
    \/ \E pid \in ProductIds, d \in {0, 7 * TicksPerDay} :
          /\ Sendable(pid)
          /\ TotalEvents < MaxTieEvents
          /\ RecordPurchase(pid, NoName, d, NoPrice)
    \/ Elapse(13 * TicksPerDay)
    \/ \E da \in DaysAheads, mc \in PredictMinConfidences :
          predict_needed_products(da, mc)

SpecTies == InitWindow /\ [][NextTies]_vars

----------------------------------------------------------------------------
(* Confidence-scored extraction: GeminiService._extract_json                 *)
(*                                                                           *)
(* A raw text is a sequence of tokens: the fence of three backquotes, the    *)
(* language tag json, a whitespace character, the braces, "members" (the     *)
(* key/value members of an object and the line break after them; their      *)
(* content is given beside the text),                                        *)
(* digits, a word that is no JSON, "deep": brackets nested beyond the        *)
(* interpreter's recursion limit, and the two ends of a member whose value   *)
(* is a string.  The whitespace character is a line break.                   *)

MaxTextLen == 4

Fence == "fence"
Tag == "json"
Space == " "
Open == "{"
Close == "}"
Members == "members"
Number == "42"
Noise == "noise"
Deep == "deep"
\* the start of a member whose value is a string, "a": " and the closing quote
KeyQuote == "keyquote"
EndQuote == "quote"
Tokens ==
    {Fence, Tag, Space, Open, Close, Members, Number, Noise, Deep, KeyQuote, EndQuote}

\* what a JSON string can hold between its quotes: no quote, no line break
StringTokens == {Fence, Tag, Open, Close, Number, Noise, Deep}

\* a JSON value: its type, its number in hundredths, its string
Missing == [t |-> "missing", n |-> 0, s |-> ""]
JsonNull == [t |-> "null", n |-> 0, s |-> ""]
Num(n) == [t |-> "num", n |-> n, s |-> ""]
Str(s) == [t |-> "str", n |-> 0, s |-> s]
JsonList == [t |-> "list", n |-> 0, s |-> ""]

NoItems == [t |-> "missing", entries |-> <<>>]

\* a JSON object, by the keys the callers read and the key "a"
EmptyMapping ==
    [a |-> Missing, storeName |-> Missing, date |-> Missing, items |-> NoItems,
     subtotal |-> Missing, tax |-> Missing, total |-> Missing,
     parsingConfidence |-> Missing]

\* what json.loads returns
Object(members) == [type |-> "object", members |-> members]
Scalar == [type |-> "number", members |-> EmptyMapping]
QuotedString == [type |-> "string", members |-> EmptyMapping]
NoValue == [type |-> "none", members |-> EmptyMapping]

\* str.strip()
RECURSIVE LStrip(_)
LStrip(s) == IF s # <<>> /\ Head(s) = Space THEN LStrip(Tail(s)) ELSE s

RECURSIVE RStrip(_)
RStrip(s) ==
    IF s # <<>> /\ s[Len(s)] = Space THEN RStrip(SubSeq(s, 1, Len(s) - 1)) ELSE s

Strip(s) == RStrip(LStrip(s))

\* re.sub(r'^```(?:json)?\s*', '', text), on a text that starts with the fence
RemoveLeadingFence(s) ==
    LET rest == Tail(s)
    IN LStrip(IF rest # <<>> /\ Head(rest) = Tag THEN Tail(rest) ELSE rest)

\* re.sub(r'\s*```\s*$', '', text)
RemoveTrailingFence(s) ==
    LET t == RStrip(s)
    IN IF t # <<>> /\ t[Len(t)] = Fence
       THEN RStrip(SubSeq(t, 1, Len(t) - 1))
       ELSE s

\* the members {"a": "..."}, whatever the string holds
MembersQuoted == [EmptyMapping EXCEPT !.a = Str("text")]

\* s is a string: an opening token, what a string can hold, the closing quote
IsQuoted(s, opening) ==
    /\ Len(s) >= 2
    /\ Head(s) = opening
    /\ s[Len(s)] = EndQuote
    /\ \A i \in 2..(Len(s) - 1) : s[i] \in StringTokens

\* json.loads: the value, or the exception raised
Loads(s, members) ==
    LET t == Strip(s)
    IN IF t # <<>> /\ Head(t) = Deep
       THEN [status |-> "RecursionError", value |-> NoValue]
       ELSE IF t # <<>> /\ \A i \in DOMAIN t : t[i] = Number
       THEN [status |-> "ok", value |-> Scalar]
       ELSE IF IsQuoted(t, EndQuote)
       THEN [status |-> "ok", value |-> QuotedString]
       ELSE IF Len(t) >= 2 /\ Head(t) = Open /\ t[Len(t)] = Close
       THEN LET inner == Strip(SubSeq(t, 2, Len(t) - 1))
            IN IF inner = <<>> THEN [status |-> "ok", value |-> Object(EmptyMapping)]
               ELSE IF inner = <<Members>>
               THEN [status |-> "ok", value |-> Object(members)]
               ELSE IF IsQuoted(inner, KeyQuote)
               THEN [status |-> "ok", value |-> Object(MembersQuoted)]
               ELSE [status |-> "JSONDecodeError", value |-> NoValue]
       ELSE [status |-> "JSONDecodeError", value |-> NoValue]

\* the first position at or after i that holds no whitespace
RECURSIVE SkipSpace(_, _)
SkipSpace(s, i) == IF i <= Len(s) /\ s[i] = Space THEN SkipSpace(s, i + 1) ELSE i

\* re.search(r'```json\s*(\{.*?\})\s*```', text, re.DOTALL), or without the
\* tag: group 1 of the leftmost match, the shortest from there; <<>> if none
FencedBlock(s, tagged) ==
    LET opens(i) == \* the position of the brace of a match that starts at i
            IF s[i] # Fence THEN 0
            ELSE LET j == IF tagged
                          THEN IF i + 1 <= Len(s) /\ s[i + 1] = Tag
                               THEN SkipSpace(s, i + 2) ELSE 0
                          ELSE SkipSpace(s, i + 1)
                 IN IF j # 0 /\ j <= Len(s) /\ s[j] = Open THEN j ELSE 0
        closes(j) == {k \in (j + 1)..Len(s) :
                        /\ s[k] = Close
                        /\ SkipSpace(s, k + 1) <= Len(s)
                        /\ s[SkipSpace(s, k + 1)] = Fence}
        starts == {i \in DOMAIN s : opens(i) # 0 /\ closes(opens(i)) # {}}
    IN IF starts = {} THEN <<>>
       ELSE LET i == CHOOSE i \in starts : \A x \in starts : i <= x
                j == opens(i)
                k == CHOOSE k \in closes(j) : \A x \in closes(j) : k <= x
            IN <<SubSeq(s, j, k)>>

\* response_text[start:end+1] for the first '{' and the last '}', <<>> if the
\* guard "start != -1 and end != -1 and end > start" fails
BraceSpan(s) ==
    LET os == {i \in DOMAIN s : s[i] = Open}
        cs == {i \in DOMAIN s : s[i] = Close}
    IN IF os = {} \/ cs = {} THEN <<>>
       ELSE LET start == CHOOSE i \in os : \A x \in os : i <= x
                end == CHOOSE i \in cs : \A x \in cs : x <= i
            IN IF end > start THEN <<SubSeq(s, start, end)>> ELSE <<>>

\* GeminiService._extract_json: what it returns, or the exception it raises
ExtractJson(response_text, members) ==
    LET stripped == Strip(response_text)
        text == IF stripped # <<>> /\ Head(stripped) = Fence
                THEN Strip(RemoveTrailingFence(RemoveLeadingFence(stripped)))
                ELSE stripped
        direct == Loads(text, members)
        tagged == FencedBlock(response_text, TRUE)
        generic == FencedBlock(response_text, FALSE)
        span == BraceSpan(response_text)
        ok(m) == m # <<>> /\ Loads(m[1], members).status = "ok"
    IN IF direct.status = "ok" THEN direct
       ELSE IF direct.status # "JSONDecodeError" THEN direct
       ELSE IF ok(tagged) THEN Loads(tagged[1], members)
       ELSE IF ok(generic) THEN Loads(generic[1], members)
       ELSE IF ok(span) THEN Loads(span[1], members)
       ELSE [status |-> "ok", value |-> Object(EmptyMapping)]

\* the members {"a": 1}
MembersA == [EmptyMapping EXCEPT !.a = Num(100)]

RECURSIVE TextsUpTo(_)
TextsUpTo(n) ==
    IF n = 0 THEN {<<>>}
    ELSE LET shorter == TextsUpTo(n - 1)
         IN shorter \cup {Append(t, tok) : t \in {x \in shorter : Len(x) = n - 1},
                                           tok \in Tokens}

\* noise ```json {"a":1} ``` noise   and   prefix {"a":1} suffix
FencedSample ==
    <<Noise, Space, Fence, Tag, Space, Open, Members, Close, Space, Fence, Space, Noise>>
BracedSample == <<Noise, Space, Open, Members, Close, Space, Noise>>
\* {"a": "```{}```"}, and the same after a word
QuotedSample == <<Open, KeyQuote, Fence, Open, Close, Fence, EndQuote, Close>>
NoiseQuotedSample == <<Noise>> \o QuotedSample

SampleTexts == {FencedSample, BracedSample, QuotedSample, NoiseQuotedSample}

RawTexts == TextsUpTo(MaxTextLen) \cup SampleTexts

\* the raw text _extract_json is called with
InitExtract ==
    /\ products = <<>>
    /\ hist = [k \in HistKeys |-> [t \in Times |-> 0]]
    /\ now = 0
    /\ fkEnforced = TRUE
    /\ \E t \in RawTexts :
           last = [op |-> "_extract_json", status |-> "called", target |-> BogusId,
                   value |-> NoValue, text |-> t]
    /\ assocs = <<>>
    /\ coCalls = [pr \in Pairs |-> 0]
    /\ reqs = [r \in Requests |-> Idle]
    /\ purs = [r \in Requests |-> NoPurchase]

\* the call of _extract_json returns, or raises
extract_json(members) ==
    /\ last.op = "_extract_json"
    /\ last.status = "called"
    /\ LET r == ExtractJson(last.text, members)
       IN last' = [last EXCEPT !.status = r.status, !.value = r.value]
    /\ UNCHANGED <<products, hist, now, fkEnforced, assocs, coCalls, reqs, purs>>

NextExtract == extract_json(MembersA)

SpecExtract == InitExtract /\ [][NextExtract]_vars

----------------------------------------------------------------------------
(* Receipt building: GeminiService._validate_and_build_receipt and           *)
(* GeminiService.parse_receipt                                               *)

MaxItems == 2

\* a string that float() accepts
NumStr(n) == [t |-> "numstr", n |-> n, s |-> ""]

\* Optional[float]: None, or the number in hundredths
NoneValue == <<>>
Some(x) == <<x>>

\* float(v): the number, ValueError for a string that is no number, TypeError
\* for None and for a list
Float(v) ==
    IF v.t \in {"num", "numstr"} THEN [status |-> "ok", x |-> v.n]
    ELSE IF v.t = "str" THEN [status |-> "ValueError", x |-> 0]
    ELSE [status |-> "TypeError", x |-> 0]

\* float(d[key]) if d.get(key) is not None else None
FloatOrNone(v) ==
    IF v.t \in {"missing", "null"} THEN [status |-> "ok", x |-> NoneValue]
    ELSE [status |-> Float(v).status, x |-> Some(Float(v).x)]

\* float(d.get(key, default))
FloatOr(v, default) ==
    IF v.t = "missing" THEN [status |-> "ok", x |-> default] ELSE Float(v)

\* Field(ge=0.0, le=1.0): pydantic's ValidationError is a ValueError
InUnitRange(x) == 0 <= x /\ x <= 100

DefaultQty == 100
DefaultItemConfidence == 80
DefaultParsingConfidence == 70

\* str(item_data.get('name', 'Unknown')) of a string, of None, of no name
NameOf(v) ==
    CASE v.t = "missing" -> "Unknown"
      [] v.t = "null" -> "None"
      [] v.t = "str" -> v.s

\* an entry of the item list: a JSON object by the keys read, or another value
ItemObject(name, price, qty, confidence) ==
    [t |-> "obj", name |-> name, price |-> price, qty |-> qty,
     confidence |-> confidence]
ItemValue(t) ==
    [t |-> t, name |-> Missing, price |-> Missing, qty |-> Missing,
     confidence |-> Missing]

NoItem == [name |-> "", price |-> NoneValue, qty |-> NoneValue, confidence |-> 0]

\* the first status that is not "ok", in evaluation order
FirstError(statuses) ==
    IF \A i \in DOMAIN statuses : statuses[i] = "ok" THEN "ok"
    ELSE statuses[CHOOSE i \in DOMAIN statuses :
                      /\ statuses[i] # "ok"
                      /\ \A j \in 1..(i - 1) : statuses[j] = "ok"]

\* ReceiptItem(name=..., price=..., qty=..., confidence=...) of one entry: the
\* item, or the exception
BuildItem(e) ==
    IF e.t # "obj" THEN [status |-> "AttributeError", item |-> NoItem]
    ELSE LET price == FloatOrNone(e.price)
             qty == FloatOr(e.qty, DefaultQty)
             confidence == FloatOr(e.confidence, DefaultItemConfidence)
             valid == IF confidence.status = "ok" /\ ~InUnitRange(confidence.x)
                      THEN "ValueError" ELSE "ok"
             status == FirstError(<<price.status, qty.status, confidence.status, valid>>)
         IN IF status = "ok"
            THEN [status |-> "ok",
                  item |-> [name |-> NameOf(e.name), price |-> price.x,
                            qty |-> Some(qty.x), confidence |-> confidence.x]]
            ELSE [status |-> status, item |-> NoItem]

\* the loop over the entries: KeyError, ValueError and TypeError skip the entry,
\* any other exception leaves the loop
RECURSIVE BuildItems(_)
BuildItems(entries) ==
    IF entries = <<>> THEN [status |-> "ok", items |-> <<>>]
    ELSE LET b == BuildItem(Head(entries))
             rest == BuildItems(Tail(entries))
         IN IF b.status \in {"KeyError", "ValueError", "TypeError"} THEN rest
            ELSE IF b.status # "ok" THEN [status |-> b.status, items |-> <<>>]
            ELSE [status |-> rest.status,
                  items |-> IF rest.status = "ok" THEN <<b.item>> \o rest.items
                            ELSE <<>>]

\* Optional[str] of storeName and date
StrOrNone(v) ==
    CASE v.t \in {"missing", "null"} -> NoneValue
      [] v.t = "str" -> Some(v.s)

\* ParsedReceipt(parsingConfidence=0.0, items=[])
EmptyReceipt ==
    [storeName |-> NoneValue, date |-> NoneValue, items |-> <<>>,
     subtotal |-> NoneValue, tax |-> NoneValue, total |-> NoneValue,
     parsingConfidence |-> 0]

\* GeminiService._validate_and_build_receipt: the receipt, or the exception
ValidateAndBuild(data) ==
    IF data.type # "object" THEN [status |-> "AttributeError", receipt |-> EmptyReceipt]
    ELSE LET d == data.members
             items == IF d.items.t = "missing" THEN [status |-> "ok", items |-> <<>>]
                      ELSE IF d.items.t = "list" THEN BuildItems(d.items.entries)
                      ELSE [status |-> "TypeError", items |-> <<>>]
             subtotal == FloatOrNone(d.subtotal)
             tax == FloatOrNone(d.tax)
             total == FloatOrNone(d.total)
             confidence == FloatOr(d.parsingConfidence, DefaultParsingConfidence)
             valid == IF confidence.status = "ok" /\ ~InUnitRange(confidence.x)
                      THEN "ValueError" ELSE "ok"
             status == FirstError(<<items.status, subtotal.status, tax.status,
                                    total.status, confidence.status, valid>>)
         IN IF status = "ok"
            THEN [status |-> "ok",
                  receipt |-> [storeName |-> StrOrNone(d.storeName),
                               date |-> StrOrNone(d.date),
                               items |-> items.items,
                               subtotal |-> subtotal.x, tax |-> tax.x,
                               total |-> total.x,
                               parsingConfidence |-> confidence.x]]
            ELSE [status |-> status, receipt |-> EmptyReceipt]

\* what generate_content and response.text give: an exception, or a raw text
\* and the members of the object written in it
Raises == [outcome |-> "raises", text |-> <<>>, members |-> EmptyMapping]
Responds(text, members) == [outcome |-> "text", text |-> text, members |-> members]

\* GeminiService.parse_receipt: every exception of the generator call, of the
\* extraction and of the building ends in the empty receipt
ParseReceipt(response) ==
    IF response.outcome = "raises" THEN EmptyReceipt
    ELSE LET e == ExtractJson(response.text, response.members)
         IN IF e.status # "ok" THEN EmptyReceipt
            ELSE LET b == ValidateAndBuild(e.value)
                 IN IF b.status # "ok" THEN EmptyReceipt ELSE b.receipt

\* entries of an item list: two well-formed ones, a non-numeric price, a list
\* for a price, a confidence above 1, and a string in place of a record
MilkItem == ItemObject(Str("Milk"), Num(350), Missing, Num(90))
EggsItem == ItemObject(Str("Eggs"), JsonNull, NumStr(200), Missing)
TeaItem == ItemObject(Str("Tea"), Str("n/a"), Missing, Missing)
RiceItem == ItemObject(Str("Rice"), JsonList, Missing, Missing)
SaltItem == ItemObject(Str("Salt"), Num(120), Missing, Num(150))
TextItem == ItemValue("str")
Entries == {MilkItem, EggsItem, TeaItem, RiceItem, SaltItem, TextItem}

RECURSIVE ItemListsUpTo(_)
ItemListsUpTo(n) ==
    IF n = 0 THEN {<<>>}
    ELSE LET shorter == ItemListsUpTo(n - 1)
         IN shorter \cup {Append(l, e) : l \in {x \in shorter : Len(x) = n - 1},
                                         e \in Entries}

ReceiptMembers ==
    {[EmptyMapping EXCEPT !.storeName = Str("SM Store"),
                          !.items = [t |-> "list", entries |-> l],
                          !.subtotal = IF total = Missing THEN Num(500) ELSE JsonNull,
                          !.total = total,
                          !.parsingConfidence = confidence] :
        l \in ItemListsUpTo(MaxItems),
        total \in {Missing, JsonNull, Num(625), Str("n/a")},
        confidence \in {Missing, JsonNull, Num(95)}}

ReceiptTexts == {<<Open, Members, Close>>, <<Fence, Tag, Space, Open, Members, Close, Space, Fence>>}

Responses ==
    {Raises} \cup {Responds(t, m) : t \in ReceiptTexts, m \in ReceiptMembers}

\* the answer of the generator that parse_receipt is about to handle
InitBuild ==
    /\ products = <<>>
    /\ hist = [k \in HistKeys |-> [t \in Times |-> 0]]
    /\ now = 0
    /\ fkEnforced = TRUE
    /\ \E response \in Responses :
           last = [op |-> "parse_receipt", status |-> "called", target |-> BogusId,
                   value |-> EmptyReceipt, response |-> response]
    /\ assocs = <<>>
    /\ coCalls = [pr \in Pairs |-> 0]
    /\ reqs = [r \in Requests |-> Idle]
    /\ purs = [r \in Requests |-> NoPurchase]

\* parse_receipt returns
parse_receipt ==
    /\ last.op = "parse_receipt"
    /\ last.status = "called"
    /\ last' = [last EXCEPT !.status = "ok", !.value = ParseReceipt(last.response)]
    /\ UNCHANGED <<products, hist, now, fkEnforced, assocs, coCalls, reqs, purs>>

NextBuild == parse_receipt

SpecBuild == InitBuild /\ [][NextBuild]_vars

----------------------------------------------------------------------------
(* POST /process-advanced: api.routes.process_receipt_advanced, _basic_parse *)
(*                                                                           *)
(* An OCR text is a sequence of lines; a line is its words (the label) and   *)
(* the price tokens \d+\.\d{2} that follow them, in hundredths.              *)

MaxLines == 2

Line(label, prices) == [label |-> label, prices |-> prices]

StoreLine == Line("SM Store", <<>>)
PhoneLine == Line("Tel 555", <<>>)
MilkLine == Line("Milk", <<350>>)
TotalLine == Line("TOTAL", <<350, 500>>)
TotalDueLine == Line("Total due", <<>>)
SubtotalLine == Line("Subtotal", <<450>>)
OcrLines == {StoreLine, PhoneLine, MilkLine, TotalLine, TotalDueLine, SubtotalLine}

\* len(label)
LabelLen(label) ==
    CASE label = "SM Store" -> 8
      [] label = "Tel 555" -> 7
      [] label = "Milk" -> 4
      [] label = "TOTAL" -> 5
      [] label = "Total due" -> 9
      [] label = "Subtotal" -> 8

\* re.search(r'\d', label)
HasDigit(label) == label = "Tel 555"

\* 'total' in label.lower()
ContainsTotal(label) == label \in {"TOTAL", "Total due", "Subtotal"}

\* any(kw in label.lower() for kw in ['total', 'tax', 'subtotal'])
HasKeyword(label) == label \in {"TOTAL", "Total due", "Subtotal"}

\* len of a price token: d.dd, or dd.dd
PriceLen(x) == IF x < 1000 THEN 4 ELSE 5

RECURSIVE PricesLen(_)
PricesLen(prices) ==
    IF prices = <<>> THEN 0 ELSE 1 + PriceLen(Head(prices)) + PricesLen(Tail(prices))

\* len(line.strip()): the label and the price tokens, one space between them
LineLen(line) ==
    IF line.label = ""
    THEN IF line.prices = <<>> THEN 0 ELSE PricesLen(line.prices) - 1
    ELSE LabelLen(line.label) + PricesLen(line.prices)

\* ocr_text.split('\n'): the empty text is one empty line
SplitLines(ocr_text) == IF ocr_text = <<>> THEN <<Line("", <<>>)>> ELSE ocr_text

MaxStoreLines == 5
MaxBasicItems == 20
BasicItemConfidence == 60
BasicParsingConfidence == 50

Prefix(s, n) == SubSeq(s, 1, IF Len(s) < n THEN Len(s) ELSE n)

\* the first index of s that satisfies Test, 0 if none
FirstIndex(s, Test(_)) ==
    IF \E i \in DOMAIN s : Test(s[i])
    THEN CHOOSE i \in DOMAIN s : Test(s[i]) /\ \A j \in 1..(i - 1) : ~Test(s[j])
    ELSE 0

\* (variant: the first price token of the line instead of the last)
BasicTotalFirstToken(lines) ==
    LET IsTotal(l) == ContainsTotal(l.label) /\ l.prices # <<>>
        tot == FirstIndex(lines, IsTotal)
    IN IF tot = 0 THEN NoneValue ELSE Some(lines[tot].prices[1])

\* the loop that finds the total: it leaves at the first line that contains
\* 'total' and holds a price token
BasicTotal(lines) ==
    LET IsTotal(l) == ContainsTotal(l.label) /\ l.prices # <<>>
        tot == FirstIndex(lines, IsTotal)
    IN IF tot = 0 THEN NoneValue
       ELSE Some(lines[tot].prices[Len(lines[tot].prices)])

\* routes._basic_parse
BasicParse(ocr_text) ==
    LET lines == SplitLines(ocr_text)
        IsStore(l) == LineLen(l) > 3 /\ l.prices = <<>> /\ ~HasDigit(l.label)
        IsItem(l) == /\ l.prices # <<>>
                     /\ LineLen(l) > 5
                     /\ l.label # ""
                     /\ ~HasKeyword(l.label)
        first == Prefix(lines, MaxStoreLines)
        store == FirstIndex(first, IsStore)
        found == SelectSeq(lines, IsItem)
        items == [i \in DOMAIN found |->
                     [name |-> found[i].label, price |-> Some(found[i].prices[1]),
                      qty |-> Some(DefaultQty), confidence |-> BasicItemConfidence]]
    IN [storeName |-> IF store = 0 THEN NoneValue ELSE Some(first[store].label),
        date |-> NoneValue,
        items |-> Prefix(items, MaxBasicItems),
        subtotal |-> NoneValue,
        tax |-> NoneValue,
        total |-> BasicTotal(lines),
        parsingConfidence |-> BasicParsingConfidence]

RECURSIVE OcrTextsUpTo(_)
OcrTextsUpTo(n) ==
    IF n = 0 THEN {<<>>}
    ELSE LET shorter == OcrTextsUpTo(n - 1)
         IN shorter \cup {Append(t, l) : t \in {x \in shorter : Len(x) = n - 1},
                                         l \in OcrLines}

\* ProcessReceiptRequest: no image, one that decodes, or one that does not;
\* the OCR text, <<>> when it is None or empty
ReceiptRequests ==
    [imageBase64 : {"none", "valid", "invalid"},
     ocrText : OcrTextsUpTo(MaxLines),
     useGemini : BOOLEAN]

\* what the generator answers: an exception, no JSON at all, brackets nested
\* too deep, an object with two items, an object whose item list holds a string
GeneratorResponses ==
    { Raises,
      Responds(<<Noise>>, EmptyMapping),
      Responds(<<Deep>>, EmptyMapping),
      Responds(<<Open, Members, Close>>,
               [EmptyMapping EXCEPT !.items = [t |-> "list", entries |-> <<MilkItem, EggsItem>>],
                                    !.total = Num(625)]),
      Responds(<<Open, Members, Close>>,
               [EmptyMapping EXCEPT !.items = [t |-> "list", entries |-> <<MilkItem, TextItem>>]]) }

ProcessReceiptResponse(success, receipt, method) ==
    [success |-> success, receipt |-> receipt, method |-> method]

NoResponse == ProcessReceiptResponse(FALSE, EmptyReceipt, "none")

\* the request, settings.is_gemini_configured, whether GeminiService() can be
\* constructed, and the answer the generator will give
InitReceipt ==
    /\ products = <<>>
    /\ hist = [k \in HistKeys |-> [t \in Times |-> 0]]
    /\ now = 0
    /\ fkEnforced = TRUE
    /\ \E request \in ReceiptRequests, configured \in BOOLEAN,
          constructed \in BOOLEAN, response \in GeneratorResponses :
           last = [op |-> "process_receipt_advanced", status |-> "called",
                   target |-> BogusId, value |-> NoResponse, request |-> request,
                   is_gemini_configured |-> configured,
                   constructed |-> constructed, response |-> response]
    /\ assocs = <<>>
    /\ coCalls = [pr \in Pairs |-> 0]
    /\ reqs = [r \in Requests |-> Idle]
    /\ purs = [r \in Requests |-> NoPurchase]

\* process_receipt_advanced answers
process_receipt_advanced ==
    /\ last.op = "process_receipt_advanced"
    /\ last.status = "called"
    /\ LET request == last.request
       IN IF request.imageBase64 = "none" /\ request.ocrText = <<>>
          THEN last' = [last EXCEPT !.status = "400"]
          ELSE IF request.imageBase64 = "invalid"
          THEN last' = [last EXCEPT !.status = "400"]
          ELSE IF request.useGemini /\ last.is_gemini_configured
          THEN IF last.constructed
               THEN last' = [last EXCEPT !.status = "ok",
                                 !.value = ProcessReceiptResponse(
                                     TRUE, ParseReceipt(last.response), "gemini")]
               ELSE last' = [last EXCEPT !.status = "ok",
                                 !.value = ProcessReceiptResponse(
                                     TRUE, BasicParse(request.ocrText), "basic_fallback")]
          ELSE last' = [last EXCEPT !.status = "ok",
                            !.value = ProcessReceiptResponse(
                                TRUE, BasicParse(request.ocrText),
                                IF ~request.useGemini THEN "basic"
                                ELSE "gemini_not_configured")]
    /\ UNCHANGED <<products, hist, now, fkEnforced, assocs, coCalls, reqs, purs>>

NextReceipt == process_receipt_advanced

SpecReceipt == InitReceipt /\ [][NextReceipt]_vars

----------------------------------------------------------------------------
(* Claims about the association miner, under SpecAssoc and SpecConc *)

RowsOf(table, pr) == {i \in DOMAIN table : table[i].a = pr[1] /\ table[i].b = pr[2]}

\* C1: once record_association has been called for two distinct products, in
\* either argument order, exactly one association row exists for the unordered
\* pair, stored with the smaller id first, and get_associated_products from
\* either endpoint returns the other endpoint with the same confidence.
C1_SymmetricEdge ==
    \A pr \in Pairs :
        (coCalls[pr] > 0 /\ pr[1] \in DOMAIN products /\ pr[2] \in DOMAIN products) =>
            /\ Cardinality(RowsOf(assocs, pr)) = 1
            /\ RowsOf(assocs, <<pr[2], pr[1]>>) = {}
            /\ LET fromA == Associated(pr[1], <<1, 10>>, DefaultLimit)
                   fromB == Associated(pr[2], <<1, 10>>, DefaultLimit)
               IN /\ fromA.status = "ok"
                  /\ fromB.status = "ok"
                  /\ \E i \in DOMAIN fromA.value, j \in DOMAIN fromB.value :
                        /\ fromA.value[i][1] = pr[2]
                        /\ fromB.value[j][1] = pr[1]
                        /\ fromA.value[i][2] = fromB.value[j][2]

\* C2: record_association(X, X) succeeds without error and leaves the stored
\* associations as they were, and no stored association joins a product to itself.
C2_SelfPairNoOp ==
    [][ /\ \A x \in ProductIds :
              record_association(x, x) => (last'.status = "ok" /\ assocs' = assocs)
        /\ \A i \in DOMAIN assocs' : assocs'[i].a # assocs'[i].b ]_vars

\* C3: a record_association call never lowers the confidence of an edge, no
\* confidence exceeds the cap, and a pair that has co-occurred 50 times has an
\* edge whose confidence is the cap exactly.
C3_MonotoneSaturating ==
    [][ /\ \A i \in DOMAIN assocs :
              i \in DOMAIN assocs' /\ RatLeq(assocs[i].confidence, assocs'[i].confidence)
        /\ \A i \in DOMAIN assocs' : RatLeq(assocs'[i].confidence, ConfidenceCap)
        /\ \A pr \in Pairs :
              coCalls'[pr] >= 50 =>
                  \E i \in RowsOf(assocs', pr) : assocs'[i].confidence = ConfidenceCap ]_vars

\* C4: the first record_association for a pair creates a row with
\* co_purchase_count = 1 and confidence = 0.1, and every stored row has
\* co_purchase_count >= 1 and confidence = min(co_purchase_count / 10, cap).
C4_FirstEdge ==
    [][ /\ \A a \in ProductIds, b \in ProductIds :
              (a # b /\ coCalls[Canonical(a, b)] = 0 /\ record_association(a, b)) =>
                  \E i \in RowsOf(assocs', Canonical(a, b)) :
                      /\ assocs'[i].co_purchase_count = 1
                      /\ assocs'[i].confidence = <<1, 10>>
        /\ \A i \in DOMAIN assocs' :
              /\ assocs'[i].co_purchase_count >= 1
              /\ assocs'[i].confidence =
                    IF assocs'[i].co_purchase_count >= 10 THEN <<1, 1>>
                    ELSE Rat(assocs'[i].co_purchase_count, 10) ]_vars

\* C10: when two or more concurrent record_association calls on one unordered
\* pair have all finished, exactly one row exists for the pair and its co_purchase_count is
\* the number of those calls.
C10_NoLostAssociationUpdate ==
    \A pr \in Pairs :
        LET calls == {r \in Requests : reqs[r].pc # "idle" /\ <<reqs[r].a, reqs[r].b>> = pr}
        IN (Cardinality(calls) >= 2 /\ \A r \in calls : reqs[r].pc = "done") =>
              /\ Cardinality(RowsOf(assocs, pr)) = 1
              /\ \A i \in RowsOf(assocs, pr) :
                    assocs[i].co_purchase_count = Cardinality(calls)

\* C11: when the concurrent record_purchase calls on a product have all
\* completed, and there were two or more, the product's purchase_count is the
\* number of those calls and the number of purchase events stored for it.
C11_NoLostPurchaseUpdate ==
    \A pid \in DOMAIN products :
        LET calls == {r \in Requests : purs[r].pc # "idle" /\ purs[r].pid = pid}
        IN (Cardinality(calls) >= 2 /\ \A r \in calls : purs[r].pc = "done") =>
              /\ products[pid].purchase_count = Cardinality(calls)
              /\ products[pid].purchase_count = NumEvents(pid)

\* the products joined to pid by an association of confidence >= mc
Partners(pid, mc) ==
    {o \in DOMAIN products \ {pid} :
        \E i \in DOMAIN assocs :
            /\ {assocs[i].a, assocs[i].b} = {pid, o}
            /\ RatLeq(mc, assocs[i].confidence)}

\* entry x = <<product, confidence, co_purchase_count>> comes before entry y
Outranks(x, y) ==
    \/ ~RatLeq(x[2], y[2])
    \/ x[2] = y[2] /\ x[3] > y[3]
    \/ x[2] = y[2] /\ x[3] = y[3] /\ x[1] < y[1]

\* C14: get_associated_products(pid, min_confidence, limit) returns without
\* error the other endpoints of the associations of pid whose confidence is
\* >= min_confidence, never pid, ordered by confidence descending, then
\* co_purchase_count descending, then product id, cut to limit entries; with
\* no associations stored it returns the empty list.
C14_AssociatedQuery ==
    [][ \A pid \in ProductIds, mc \in MinConfidences :
          get_associated_products(pid, mc, DefaultLimit) =>
            /\ last'.status = "ok"
            /\ assocs = <<>> => last'.value = <<>>
            /\ Len(last'.value) = Min(DefaultLimit, Cardinality(Partners(pid, mc)))
            /\ \A i \in DOMAIN last'.value :
                  /\ last'.value[i][1] \in Partners(pid, mc)
                  /\ last'.value[i][1] # pid
            /\ \A i, j \in DOMAIN last'.value :
                  i < j => Outranks(last'.value[i], last'.value[j]) ]_vars

----------------------------------------------------------------------------
(* Claims about the purchase statistics tracker, under Spec and SpecWindow *)

PurchaseDate(d) == IF d = NoDate THEN now ELSE d

WindowCount(rows, t, k) ==
    LET later == CountRows(rows, Cardinality({i \in DOMAIN TimeSeq : TimeSeq[i] <= t}) + 1)
    IN IF k - later <= 0 THEN 0 ELSE Min(rows[t], k - later)

\* neighbouring distinct dates among the k most recent rows, a whole day or more apart
PositiveGaps(rows, k) ==
    LET W == {t \in Times : WindowCount(rows, t, k) > 0}
    IN {g \in W \X W : /\ g[1] > g[2]
                       /\ ~ \E w \in W : g[2] < w /\ w < g[1]
                       /\ Days(g[1] - g[2]) > 0}

RECURSIVE SumGaps(_)
SumGaps(G) ==
    IF G = {} THEN 0
    ELSE LET g == CHOOSE g \in G : TRUE
         IN Days(g[1] - g[2]) + SumGaps(G \ {g})

MeanPositiveGap(rows, k, old) ==
    LET G == PositiveGaps(rows, k)
    IN IF G = {} THEN old ELSE Rat(SumGaps(G), Cardinality(G))

C7_NonPositiveGapKeepsAverage ==
    [][ \A pid \in DOMAIN products, d \in WindowDates \cup {NoDate} :
          (/\ PurchaseDate(d) <= products[pid].last_purchased_date
           /\ RecordPurchase(pid, NoName, d, NoPrice)) =>
              products'[pid].average_days_between_purchases =
                  products[pid].average_days_between_purchases ]_vars

\* C8: record_purchase with a product id that resolves to no product and no
\* name fails with NotFound (404).
C8_NotFound ==
    [][ \A pid \in {BogusId} \cup SentinelIds,
           d \in SentDates, p \in Prices \cup {NoPrice} :
          RecordPurchase(pid, NoName, d, p) => last'.status = "404" ]_vars

\* C9: no two products have names equal ignoring case; a creation request for a
\* name that exists (ignoring case) changes no product; and a record_purchase
\* with the sentinel id and the name of an existing product records the
\* purchase against that product.
C9_UniqueNames ==
    [][ /\ \A i \in DOMAIN products', j \in DOMAIN products' :
              i # j => Lower(products'[i].name) # Lower(products'[j].name)
        /\ \A n \in Names, c \in Categories, p \in Prices \cup {NoPrice} :
              (get_product_by_name(n) # Null /\ CreateProduct(n, c, p)) =>
                  products' = products
        /\ \A pid \in SentinelIds, n \in SentNames \ {NoName},
              d \in SentDates, p \in Prices \cup {NoPrice} :
              (get_product_by_name(n) # Null /\ RecordPurchase(pid, n, d, p)) =>
                  /\ last'.status = "ok"
                  /\ last'.target = get_product_by_name(n)[1]
                  /\ NumEventsIn(hist', last'.target) = NumEvents(last'.target) + 1 ]_vars

\* C20: a record_purchase call, whether it succeeds or fails, either stores
\* nothing at all, or stores the purchase event together with the statistics
\* update of its product (purchase_count, last_purchased_date) and touches no
\* other product; and no purchase event is stored whose product statistics
\* were not updated for it.
C20_AllOrNothing ==
    [][ /\ \A pid \in RequestIds, n \in SentNames,
              d \in SentDates, p \in Prices \cup {NoPrice} :
              RecordPurchase(pid, n, d, p) =>
                \/ hist' = hist /\ products' = products
                \/ \E id \in DOMAIN products' :
                      /\ hist' = [hist EXCEPT ![id][PurchaseDate(d)] = @ + 1]
                      /\ products'[id].purchase_count =
                            (IF id \in DOMAIN products
                             THEN products[id].purchase_count ELSE 0) + 1
                      /\ products'[id].last_purchased_date = PurchaseDate(d)
                      /\ \A o \in DOMAIN products' \ {id} :
                            o \in DOMAIN products /\ products'[o] = products[o]
        /\ \A k \in HistKeys :
              NumEventsIn(hist', k) > 0 =>
                  /\ k \in DOMAIN products'
                  /\ products'[k].purchase_count = NumEventsIn(hist', k) ]_vars

----------------------------------------------------------------------------
(* Claims about the repurchase predictor, under SpecPredict *)

\* the step is a prediction pass called with days_ahead and min_confidence
PredictionPass(days_ahead, min_confidence) ==
    /\ last'.op = "predict_needed_products"
    /\ last'.days_ahead = days_ahead
    /\ last'.min_confidence = min_confidence
    /\ predict_needed_products(days_ahead, min_confidence)

\* whole days from the product's last_purchased_date to now
SinceLast(id) == Days(now - products[id].last_purchased_date)

\* C12: predict_needed_products returns a product exactly when it has an
\* average (expectedDays) and a last_purchased_date, daysSincePurchase >=
\* 0.8 * expectedDays and min(daysSincePurchase / expectedDays, 1) >=
\* min_confidence, and reports min(daysSincePurchase / expectedDays, 1) as its
\* confidence: with expectedDays = 10 it is left out at 7 days and returned
\* with confidence 0.8 at 8 days.
C12_PredictionThreshold ==
    [][ \A da \in DaysAheads, mc \in PredictMinConfidences :
          PredictionPass(da, mc) =>
            /\ last'.status = "ok"
            /\ \A id \in DOMAIN products :
                  LET e == products[id].average_days_between_purchases
                      d == SinceLast(id)
                      capped == d * e[2] >= e[1]
                      due == /\ e # Null
                             /\ 10 * d * e[2] >= 8 * e[1]
                             /\ (capped \/ d * e[2] * mc[2] >= mc[1] * e[1])
                      at == {i \in DOMAIN last'.value : last'.value[i][1] = id}
                  IN /\ (at # {}) <=> due
                     /\ Cardinality(at) <= 1
                     /\ \A i \in at :
                           /\ last'.value[i][2] =
                                 IF capped THEN <<1, 1>> ELSE Rat(d * e[2], e[1])
                           /\ (e = <<10, 1>> /\ d = 8) => last'.value[i][2] = <<4, 5>>
                     /\ (e = <<10, 1>> /\ d = 7) => at = {} ]_vars

C12_Witness ==
    /\ last.op = "predict_needed_products"
    /\ \E i \in DOMAIN last.value :
          /\ last.value[i][4] = <<10, 1>>
          /\ last.value[i][3] = 8
          /\ last.value[i][2] = <<4, 5>>
          /\ SinceLast(last.value[i][1]) = 8

\* C13: the list predict_needed_products returns is in descending order of
\* confidence, and predictions of equal confidence are in ascending order of
\* product id, whatever order the store returned the rows in.
C13_DeterministicOrder ==
    [][ \A da \in DaysAheads, mc \in PredictMinConfidences :
          PredictionPass(da, mc) =>
            \A i, j \in DOMAIN last'.value :
                i < j =>
                  /\ RatLeq(last'.value[j][2], last'.value[i][2])
                  /\ last'.value[i][2] = last'.value[j][2] =>
                        last'.value[i][1] < last'.value[j][1] ]_vars

\* C15: in one stored state, at one reading of the clock and for one
\* min_confidence, every days_ahead is accepted without error and the list
\* returned for one days_ahead is the list returned for every other.
C15_DaysAheadIgnored ==
    [][ \A da \in DaysAheads, mc \in PredictMinConfidences :
          PredictionPass(da, mc) =>
            /\ last'.status = "ok"
            /\ \A other \in DaysAheads :
                  /\ \E order \in StoreOrders(Candidates) :
                        last'.value = Predictions(order, other, mc)
                  /\ \A order \in StoreOrders(Candidates) :
                        Predictions(order, other, mc) = Predictions(order, da, mc) ]_vars

\* a pass with days_ahead = 7 that leaves out a product due within 7 days
C15_Witness ==
    /\ last.op = "predict_needed_products"
    /\ last.status = "ok"
    /\ last.days_ahead = 7
    /\ \E id \in Candidates :
          LET e == products[id].average_days_between_purchases
          IN /\ \A i \in DOMAIN last.value : last.value[i][1] # id
             /\ 10 * (SinceLast(id) + 7) * e[2] >= 8 * e[1]

\* the purchase history of the scenario: one event on day 0, one on day 7
MilkHistory == [t \in Times |-> IF t \in {0, 7 * TicksPerDay} THEN 1 ELSE 0]

----------------------------------------------------------------------------
(* Claims about the extraction, under SpecExtract, SpecBuild and SpecReceipt *)

\* the text holds a JSON document some attempt can parse
SomeAttemptParses(t) ==
    \E i, j \in DOMAIN t :
        i <= j /\ Loads(SubSeq(t, i, j), MembersA).status = "ok"

\* C16: _extract_json raises for no raw text; it returns a key/value mapping,
\* the parsed one when some attempt parses and the empty one when none does.
C16_NeverRaises ==
    last.op = "_extract_json" /\ last.status # "called" =>
        /\ last.status = "ok"
        /\ last.value.type = "object"
        /\ ~SomeAttemptParses(last.text) => last.value = Object(EmptyMapping)

\* an entry the builder has to keep: a record whose price is a number or
\* absent, whose quantity is a number or absent, and whose confidence is a
\* number between 0 and 1 or absent
IsNumber(v) == v.t \in {"num", "numstr"}

WellFormed(e) ==
    /\ e.t = "obj"
    /\ e.name.t \in {"missing", "str"}
    /\ IsNumber(e.price) \/ e.price.t \in {"missing", "null"}
    /\ IsNumber(e.qty) \/ e.qty.t = "missing"
    /\ \/ e.confidence.t = "missing"
       \/ IsNumber(e.confidence) /\ InUnitRange(e.confidence.n)

\* the top-level numbers of the structure can be read
WellFormedTop(d) ==
    /\ IsNumber(d.total) \/ d.total.t \in {"missing", "null"}
    /\ d.parsingConfidence.t = "missing" \/ IsNumber(d.parsingConfidence)

\* C17: when the item list of the parsed structure holds well-formed and
\* malformed entries, the receipt parse_receipt returns is the one built from
\* the well-formed entries alone, in their order; it is not the empty receipt.
C17_DropsOnlyMalformed ==
    (/\ last.op = "parse_receipt"
     /\ last.status = "ok"
     /\ last.response.outcome = "text"
     /\ WellFormedTop(last.response.members)
     /\ \E i \in DOMAIN last.response.members.items.entries :
            WellFormed(last.response.members.items.entries[i])
     /\ \E i \in DOMAIN last.response.members.items.entries :
            ~WellFormed(last.response.members.items.entries[i]))
    => LET d == last.response.members
           kept == SelectSeq(d.items.entries, WellFormed)
       IN /\ last.value.items = [i \in DOMAIN kept |-> BuildItem(kept[i]).item]
          /\ last.value # EmptyReceipt

\* the generator call raised, or its answer holds no structure to build from
NoUsableStructure(response) ==
    \/ response.outcome = "raises"
    \/ LET e == ExtractJson(response.text, response.members)
       IN e.status # "ok" \/ e.value.type # "object" \/ e.value.members = EmptyMapping

\* C18: with the generator enabled, configured and constructed, a request whose
\* generator call raises or yields no usable structure is answered with the
\* fallback parser's receipt of the OCR text, reported as the fallback.
C18_FallbackOnFailure ==
    (/\ last.op = "process_receipt_advanced"
     /\ last.status = "ok"
     /\ last.request.useGemini
     /\ last.is_gemini_configured
     /\ last.constructed
     /\ NoUsableStructure(last.response))
    => /\ last.value.receipt = BasicParse(last.request.ocrText)
       /\ last.value.method = "basic_fallback"

----------------------------------------------------------------------------
(* Claims about the typical price, under SpecPrice *)

\* C21: a record_purchase that supplies a price p, 0 included, sets the
\* product's typical_price to 0.7 * t + 0.3 * p when it had a typical_price t,
\* 0 included, and to p when it had none; one that supplies no price leaves
\* typical_price as it was.
C21_OnePriceRule ==
    [][ \A pid \in DOMAIN products, p \in SentPrices :
          RecordPurchase(pid, NoName, NoDate, p) =>
              LET t == products[pid].typical_price
                  new == products'[pid].typical_price
              IN IF p = NoPrice THEN new = t
                 ELSE IF t = Null THEN new = Rat(p, 1)
                 ELSE new = Rat(7 * t[1] + 3 * p * t[2], 10 * t[2]) ]_vars

----------------------------------------------------------------------------
(* Claims about the order of the extraction attempts, under SpecExtract *)

Parses(r) == r.status = "ok"

\* attempt 1: the trimmed text
DirectAttempt(t) == Loads(Strip(t), MembersA)

\* attempt 2: the trimmed text without the fence marker it starts and ends with
UnfencedAttempt(t) ==
    LET stripped == Strip(t)
    IN IF stripped # <<>> /\ Head(stripped) = Fence
       THEN Loads(RemoveTrailingFence(RemoveLeadingFence(stripped)), MembersA)
       ELSE DirectAttempt(t)

\* attempt 3: the interiors of the fenced blocks of the text that parse
BlockAttempts(t) ==
    {Loads(b[1], MembersA) :
        b \in {x \in {FencedBlock(t, TRUE), FencedBlock(t, FALSE)} :
                  x # <<>> /\ Parses(Loads(x[1], MembersA))}}

\* attempt 4: the span from the first '{' to the last '}'
SpanAttempt(t) ==
    IF BraceSpan(t) = <<>> THEN [status |-> "JSONDecodeError", value |-> NoValue]
    ELSE Loads(BraceSpan(t)[1], MembersA)

\* C22: _extract_json returns what the first attempt that parses yields, in the
\* order trimmed text, text without its fence markers, interior of a fenced
\* block, span from the first '{' to the last '}'; a failed attempt is
\* swallowed, and the empty result is returned only when all four fail.  The
\* fenced block between noise is found by attempt 3 and the object between a
\* prefix and a suffix by attempt 4.
C22_AttemptOrder ==
    last.op = "_extract_json" /\ last.status # "called" =>
        LET t == last.text IN
        /\ last.status = "ok"
        /\ IF Parses(DirectAttempt(t)) THEN last.value = DirectAttempt(t).value
           ELSE IF Parses(UnfencedAttempt(t)) THEN last.value = UnfencedAttempt(t).value
           ELSE IF BlockAttempts(t) # {}
           THEN \E r \in BlockAttempts(t) : last.value = r.value
           ELSE IF Parses(SpanAttempt(t)) THEN last.value = SpanAttempt(t).value
           ELSE last.value = Object(EmptyMapping)
        /\ t = FencedSample =>
              /\ ~Parses(DirectAttempt(t)) /\ ~Parses(UnfencedAttempt(t))
              /\ BlockAttempts(t) # {}
              /\ last.value = Object(MembersA)
        /\ t = BracedSample =>
              /\ ~Parses(DirectAttempt(t)) /\ ~Parses(UnfencedAttempt(t))
              /\ BlockAttempts(t) = {}
              /\ Parses(SpanAttempt(t))
              /\ last.value = Object(MembersA)

----------------------------------------------------------------------------
(* Claims about the top-level numbers of a receipt, under SpecBuild *)

\* the field as the claim wants it: its number, or absent
NumberOrAbsent(v) == IF IsNumber(v) THEN Some(v.n) ELSE NoneValue

NumberNullOrMissing(v) == IsNumber(v) \/ v.t \in {"missing", "null"}

\* C23: a receipt built from a structure whose subtotal, tax, total and
\* parsingConfidence are numbers, null or missing carries the number of each
\* field that has one and leaves the others absent: none gets a default number
\* and a null or missing field does not abort the build.
C23_NoDefaultNumbers ==
    (/\ last.op = "parse_receipt"
     /\ last.status = "ok"
     /\ last.response.outcome = "text"
     /\ \A i \in DOMAIN last.response.members.items.entries :
            WellFormed(last.response.members.items.entries[i])
     /\ NumberNullOrMissing(last.response.members.subtotal)
     /\ NumberNullOrMissing(last.response.members.tax)
     /\ NumberNullOrMissing(last.response.members.total)
     /\ NumberNullOrMissing(last.response.members.parsingConfidence))
    => LET d == last.response.members
       IN /\ last.value.subtotal = NumberOrAbsent(d.subtotal)
          /\ last.value.tax = NumberOrAbsent(d.tax)
          /\ last.value.total = NumberOrAbsent(d.total)
          /\ IF IsNumber(d.parsingConfidence)
             THEN last.value.parsingConfidence = d.parsingConfidence.n
             ELSE last.value.parsingConfidence \notin Int

----------------------------------------------------------------------------
(* Claims about the total of the fallback parser, under SpecReceipt *)

\* the request was answered with the receipt of _basic_parse
FallbackAnswered ==
    /\ last.op = "process_receipt_advanced"
    /\ last.status = "ok"
    /\ last.value.method \in {"basic", "basic_fallback", "gemini_not_configured"}

\* the lines of the OCR text that contain the keyword 'total'
TotalLines == {i \in DOMAIN last.request.ocrText :
                  ContainsTotal(last.request.ocrText[i].label)}

\* those of them that hold a price token
PricedTotalLines == {i \in TotalLines : last.request.ocrText[i].prices # <<>>}

LastPrice(i) ==
    last.request.ocrText[i].prices[Len(last.request.ocrText[i].prices)]

\* C24 as claimed: the total is the last price token of the first line that
\* contains 'total', and no total is reported when that line holds no price
\* token or no line contains 'total'; later lines never supply the total.
C24_FirstTotalLine ==
    FallbackAnswered =>
        IF TotalLines = {} THEN last.value.receipt.total = NoneValue
        ELSE LET i == CHOOSE i \in TotalLines : \A j \in TotalLines : i <= j
             IN IF i \in PricedTotalLines
                THEN last.value.receipt.total = Some(LastPrice(i))
                ELSE last.value.receipt.total = NoneValue

\* C24 as amended: the total is the last price token of the first line that
\* contains 'total' and holds a price token; no total is reported when there
\* is no such line.
C24_FirstPricedTotalLine ==
    FallbackAnswered =>
        IF PricedTotalLines = {} THEN last.value.receipt.total = NoneValue
        ELSE LET i == CHOOSE i \in PricedTotalLines : \A j \in PricedTotalLines : i <= j
             IN last.value.receipt.total = Some(LastPrice(i))

\* a 'total' line without a price, then one with two prices: the total is the
\* last price of the second
C24_Witness ==
    /\ FallbackAnswered
    /\ last.request.ocrText = <<TotalDueLine, TotalLine>>
    /\ last.value.receipt.total = Some(500)

-----------------------------------------------------------------------------
(* Claims about the products that carry an average, under SpecPredict, and *)
(* about the range of the confidence, under SpecFloor                       *)

\* C25: in every state reached by create-product and record-purchase calls, a
\* product whose average_days_between_purchases is set has an average above 0
\* and two or more purchase rows (and a purchase_count of two or more); hence
\* every prediction that predict_needed_products returns names a product with
\* two or more purchase rows and a positive expected_days, the divisor of its
\* confidence.
C25_AverageNeedsTwoPurchases ==
    /\ \A id \in DOMAIN products :
          LET e == products[id].average_days_between_purchases IN
          e # Null =>
            /\ e[1] > 0 /\ e[2] > 0
            /\ NumEvents(id) >= 2
            /\ products[id].purchase_count >= 2
    /\ last.op = "predict_needed_products" =>
          /\ last.status = "ok"
          /\ \A i \in DOMAIN last.value :
                /\ NumEvents(last.value[i][1]) >= 2
                /\ last.value[i][4][1] > 0 /\ last.value[i][4][2] > 0

\* a product bought once, without an average, beside a product bought on
\* two days, which a prediction pass returns
C25_Witness ==
    /\ last.op = "predict_needed_products"
    /\ Len(last.value) = 1
    /\ NumEvents(last.value[1][1]) = 2
    /\ \E id \in DOMAIN products :
          /\ NumEvents(id) = 1
          /\ products[id].average_days_between_purchases = Null

\* C26: every prediction that predict_needed_products returns has a confidence
\* from 0.8 to 1.0 and days_since_purchase >= 0, so that a product whose
\* last_purchased_date is later than the clock is never returned; and a pass
\* with min_confidence <= 0.8 returns what a pass with any other
\* min_confidence <= 0.8 returns on the same rows.
C26_ConfidenceRange ==
    [][ \A mc \in FloorMinConfidences :
          PredictionPass(7, mc) =>
            /\ \A i \in DOMAIN last'.value :
                  LET r == last'.value[i] IN
                  /\ RatLeq(<<4, 5>>, r[2]) /\ RatLeq(r[2], <<1, 1>>)
                  /\ r[3] >= 0
                  /\ products[r[1]].last_purchased_date <= now
            /\ RatLeq(mc, <<4, 5>>) =>
                  \A mc2 \in FloorMinConfidences, order \in StoreOrders(Candidates) :
                     (RatLeq(mc2, <<4, 5>>) /\ last'.value = Predictions(order, 7, mc))
                        => last'.value = Predictions(order, 7, mc2)
      ]_vars

\* a pass with min_confidence 0.8 returns a product at confidence 0.8
C26_Witness ==
    /\ last.op = "predict_needed_products"
    /\ last.min_confidence = <<4, 5>>
    /\ \E i \in DOMAIN last.value :
          /\ last.value[i][2] = <<4, 5>>
          /\ last.value[i][3] >= 0

\* a product with an average whose last_purchased_date is later than the clock,
\* after a pass that returned nothing
C26_FutureDateLeftOut ==
    /\ last.op = "predict_needed_products"
    /\ last.value = <<>>
    /\ \E id \in Candidates : products[id].last_purchased_date > now

====
